---- MODULE Spec2Model ----
(***************************************************************************)
(* Model of three scripts of the advent2024 repository:                    *)
(*   day12/day12.py  flood-fill region finder, perimeter and side count    *)
(*   day9/day9.py    Part 1 disk compaction loop                           *)
(*   day6/day6.py    guard walk loop detection (check_for_loop_day6)       *)
(* Coordinates are the code's zero-based (row, col) pairs; a grid is the   *)
(* list of its rows, so the code's grid[r][c] is grid[r + 1][c + 1] here.  *)
(***************************************************************************)
EXTENDS Integers, Sequences, FiniteSets, TLC

VARIABLES
    \* day12
    grid, num_rows, num_cols, todo, rc, regions, seen, region, queue, enq,
    pc, part1, part2, baseline, shuffled,
    \* boundary analyzer applied to one region
    shape, perim, nsides, measured,
    \* day9
    data, disk, empties, i, pc9, part1_9,
    \* day6
    grid6, ro, co, r6, c6, dr6, dc6, visited6, pc6, result6, part2_6,
    steps6

vars12 == <<grid, num_rows, num_cols, todo, rc, regions, seen, region, queue,
            enq, pc, part1, part2, baseline, shuffled>>
varsB  == <<shape, perim, nsides, measured>>
vars9  == <<data, disk, empties, i, pc9, part1_9>>
vars6  == <<grid6, ro, co, r6, c6, dr6, dc6, visited6, pc6, result6,
            part2_6, steps6>>
vars   == <<vars12, varsB, vars9, vars6>>

----------------------------------------------------------------------------
(* Bounds of the model. *)

\* day12: rectangular grids of at most MaxCells cells
MaxCells == 9
\* day12: ragged inputs of at most MaxRaggedRows rows of 0..MaxRaggedCols cells
MaxRaggedRows == 3
MaxRaggedCols == 2
\* boundary analyzer: regions inside a BoxRows x BoxCols box
BoxRows == 3
BoxCols == 3
\* day9: disk maps of at most MaxMapLen digits, each in 0..MaxDigit
MaxMapLen == 4
MaxDigit == 2
\* day6: rectangular grids of at most MaxRows6 rows, MaxCols6 columns and
\* MaxCells6 cells
MaxRows6 == 3
MaxCols6 == 4
MaxCells6 == 12

Letters == {"A", "B"}

\* The 4x4 sample of the specification (AAAA / BBCD / BBCC / EEEC).
SampleGrid ==
    << <<"A", "A", "A", "A">>,
       <<"B", "B", "C", "D">>,
       <<"B", "B", "C", "C">>,
       <<"E", "E", "E", "C">> >>

----------------------------------------------------------------------------
(* Generic helpers. *)

\* the sum of f[x] over x in S, f a function defined on S
RECURSIVE SetSum(_, _)
SetSum(S, f) ==
    IF S = {} THEN 0
    ELSE LET x == CHOOSE y \in S : TRUE IN f[x] + SetSum(S \ {x}, f)

\* the sum of the numbers of a sequence
RECURSIVE SeqSum(_)
SeqSum(s) == IF s = <<>> THEN 0 ELSE Head(s) + SeqSum(Tail(s))

Range(s) == {s[k] : k \in DOMAIN s}

----------------------------------------------------------------------------
(* day12: boundary analyzer (pure functions of a region). *)

\* the direction tuple of perimeter_day12 (line 16)
PerimDirs == << <<-1, 0>>, <<1, 0>>, <<0, -1>>, <<0, 1>> >>

Shift(cell, d) == <<cell[1] + d[1], cell[2] + d[2]>>

\* an off-by-one in the number of edges of a cell
perimeter_three_edges(reg) ==
    LET exposed == [cell \in reg |->
            3 - Cardinality({k \in 1..4 : Shift(cell, PerimDirs[k]) \in reg})]
    IN  SetSum(reg, exposed)

perimeter_day12(reg) ==
    LET exposed == [cell \in reg |->
            4 - Cardinality({k \in 1..4 : Shift(cell, PerimDirs[k]) \in reg})]
    IN  SetSum(reg, exposed)

B2N(b) == IF b THEN 1 ELSE 0

\* the right-hand corner of a bottom edge forgotten
sides_no_down_right(reg) ==
    LET up    == {x \in reg : <<x[1] - 1, x[2]>> \notin reg}
        down  == {x \in reg : <<x[1] + 1, x[2]>> \notin reg}
        left  == {x \in reg : <<x[1], x[2] - 1>> \notin reg}
        right == {x \in reg : <<x[1], x[2] + 1>> \notin reg}
        upCount == [x \in up |->
              B2N(x \in left)
            + B2N(x \in right)
            + B2N(<<x[1] - 1, x[2] - 1>> \in right /\ x \notin left)
            + B2N(<<x[1] - 1, x[2] + 1>> \in left /\ x \notin right)]
        downCount == [x \in down |->
              B2N(x \in left)
            + B2N(<<x[1] + 1, x[2] - 1>> \in right /\ x \notin left)
            + B2N(<<x[1] + 1, x[2] + 1>> \in left /\ x \notin right)]
    IN  SetSum(up, upCount) + SetSum(down, downCount)

\* the "and (r, c) not in left / right" guards of the inner corners dropped
sides_unguarded(reg) ==
    LET up    == {x \in reg : <<x[1] - 1, x[2]>> \notin reg}
        down  == {x \in reg : <<x[1] + 1, x[2]>> \notin reg}
        left  == {x \in reg : <<x[1], x[2] - 1>> \notin reg}
        right == {x \in reg : <<x[1], x[2] + 1>> \notin reg}
        upCount == [x \in up |->
              B2N(x \in left)
            + B2N(x \in right)
            + B2N(<<x[1] - 1, x[2] - 1>> \in right)
            + B2N(<<x[1] - 1, x[2] + 1>> \in left)]
        downCount == [x \in down |->
              B2N(x \in left)
            + B2N(x \in right)
            + B2N(<<x[1] + 1, x[2] - 1>> \in right)
            + B2N(<<x[1] + 1, x[2] + 1>> \in left)]
    IN  SetSum(up, upCount) + SetSum(down, downCount)

sides_day12(reg) ==
    LET up    == {x \in reg : <<x[1] - 1, x[2]>> \notin reg}
        down  == {x \in reg : <<x[1] + 1, x[2]>> \notin reg}
        left  == {x \in reg : <<x[1], x[2] - 1>> \notin reg}
        right == {x \in reg : <<x[1], x[2] + 1>> \notin reg}
        upCount == [x \in up |->
              B2N(x \in left)
            + B2N(x \in right)
            + B2N(<<x[1] - 1, x[2] - 1>> \in right /\ x \notin left)
            + B2N(<<x[1] - 1, x[2] + 1>> \in left /\ x \notin right)]
        downCount == [x \in down |->
              B2N(x \in left)
            + B2N(x \in right)
            + B2N(<<x[1] + 1, x[2] - 1>> \in right /\ x \notin left)
            + B2N(<<x[1] + 1, x[2] + 1>> \in left /\ x \notin right)]
    IN  SetSum(up, upCount) + SetSum(down, downCount)

----------------------------------------------------------------------------
(* day12: grid loading and the region-finding loop. *)

RectGrids ==
    UNION {[1..d[1] -> [1..d[2] -> Letters]] :
             d \in {e \in (1..MaxCells) \X (1..MaxCells) :
                       e[1] * e[2] <= MaxCells}}

\* the cells 0 <= r < nr, 0 <= c < nc in the order of the two nested loops
RowMajor(nr, nc) == [k \in 1..(nr * nc) |-> <<(k - 1) \div nc, (k - 1) % nc>>]

InBounds(cell) ==
    /\ 0 <= cell[1] /\ cell[1] < num_rows
    /\ 0 <= cell[2] /\ cell[2] < num_cols

\* grid[r][c] does not raise IndexError (r, c >= 0 at every use)
HasCell(cell) ==
    /\ cell[1] + 1 \in DOMAIN grid
    /\ cell[2] + 1 \in DOMAIN grid[cell[1] + 1]

At(cell) == grid[cell[1] + 1][cell[2] + 1]

\* a slip in the tuple: left twice, right missing
DirsLeftTwice == << <<-1, 0>>, <<1, 0>>, <<0, -1>>, <<0, -1>> >>

\* the direction tuple of the BFS loop (line 76)
Dirs == << <<-1, 0>>, <<1, 0>>, <<0, -1>>, <<0, 1>> >>

Bump(f, x) == [f EXCEPT ![x] = @ + 1]

\* the for loop over the four directions around the dequeued cell: st is
\* [queue, seen, enq, err]; err is set when a grid subscript raises
RECURSIVE Neighbours(_, _, _)
Neighbours(k, st, cell) ==
    IF k > 4 \/ st.err THEN st
    ELSE LET n == Shift(cell, Dirs[k]) IN
         IF n \in st.seen \/ ~InBounds(n) THEN Neighbours(k + 1, st, cell)
         ELSE IF ~HasCell(n) \/ ~HasCell(cell)
              THEN [st EXCEPT !.err = TRUE]
         ELSE IF At(n) = At(cell)
              THEN Neighbours(k + 1,
                              [queue |-> Append(st.queue, n),
                               seen  |-> st.seen \cup {n},
                               enq   |-> Bump(st.enq, n),
                               err   |-> FALSE],
                              cell)
         ELSE Neighbours(k + 1, st, cell)

Load12(g) ==
    /\ grid = g
    /\ num_rows = Len(g)
    /\ num_cols = Len(g[1])
    /\ todo = RowMajor(Len(g), Len(g[1]))
    /\ rc = <<0, 0>>
    /\ regions = <<>>
    /\ seen = {}
    /\ region = {}
    /\ queue = <<>>
    /\ enq = [x \in Range(RowMajor(Len(g), Len(g[1]))) |-> 0]
    /\ pc = "scan"
    /\ part1 = 0
    /\ part2 = 0
    /\ baseline = <<>>
    /\ shuffled = FALSE

\* line 69-70: the seed is in seen, continue
SkipAt(k) ==
    /\ pc = "scan"
    /\ k \in DOMAIN todo
    /\ todo[k] \in seen
    /\ rc' = todo[k]
    /\ todo' = SubSeq(todo, 1, k - 1) \o SubSeq(todo, k + 1, Len(todo))
    /\ UNCHANGED <<grid, num_rows, num_cols, regions, seen, region, queue,
                   enq, pc, part1, part2, baseline, shuffled>>

\* the "if (r, c) in seen: continue" test left out
StartAtUnchecked(k) ==
    /\ pc = "scan"
    /\ k \in DOMAIN todo
    /\ rc' = todo[k]
    /\ todo' = SubSeq(todo, 1, k - 1) \o SubSeq(todo, k + 1, Len(todo))
    /\ region' = {}
    /\ queue' = <<todo[k]>>
    /\ enq' = Bump(enq, todo[k])
    /\ pc' = "bfs"
    /\ UNCHANGED <<grid, num_rows, num_cols, regions, seen, part1, part2,
                   baseline, shuffled>>

\* line 71-72: a new region is started from the seed
StartAt(k) ==
    /\ pc = "scan"
    /\ k \in DOMAIN todo
    /\ todo[k] \notin seen
    /\ rc' = todo[k]
    /\ todo' = SubSeq(todo, 1, k - 1) \o SubSeq(todo, k + 1, Len(todo))
    /\ region' = {}
    /\ queue' = <<todo[k]>>
    /\ enq' = Bump(enq, todo[k])
    /\ pc' = "bfs"
    /\ UNCHANGED <<grid, num_rows, num_cols, regions, seen, part1, part2,
                   baseline, shuffled>>

Skip == SkipAt(1)

StartRegion == StartAt(1)

\* line 73-85: one iteration of the while loop
Visit ==
    /\ pc = "bfs"
    /\ queue # <<>>
    /\ LET cell == Head(queue)
           st   == Neighbours(1, [queue |-> Tail(queue), seen |-> seen,
                                  enq |-> enq, err |-> FALSE], cell)
       IN  /\ region' = region \cup {cell}
           /\ queue' = st.queue
           /\ seen' = st.seen
           /\ enq' = st.enq
           /\ pc' = IF st.err THEN "IndexError" ELSE "bfs"
    /\ UNCHANGED <<grid, num_rows, num_cols, todo, rc, regions, part1, part2,
                   baseline, shuffled>>

\* line 86: the queue is empty, the region is appended
CloseRegion ==
    /\ pc = "bfs"
    /\ queue = <<>>
    /\ regions' = Append(regions, region)
    /\ pc' = "scan"
    /\ UNCHANGED <<grid, num_rows, num_cols, todo, rc, seen, region, queue,
                   enq, part1, part2, baseline, shuffled>>

\* the size factor of Part 1 forgotten
FinishNoArea ==
    /\ pc = "scan"
    /\ todo = <<>>
    /\ part1' = SeqSum([k \in DOMAIN regions |-> perimeter_day12(regions[k])])
    /\ part2' = SeqSum([k \in DOMAIN regions |->
                   Cardinality(regions[k]) * sides_day12(regions[k])])
    /\ pc' = "done"
    /\ UNCHANGED <<grid, num_rows, num_cols, todo, rc, regions, seen, region,
                   queue, enq, baseline, shuffled>>

\* line 89-93: both loops are over, the two totals are printed
Finish ==
    /\ pc = "scan"
    /\ todo = <<>>
    /\ part1' = SeqSum([k \in DOMAIN regions |->
                   Cardinality(regions[k]) * perimeter_day12(regions[k])])
    /\ part2' = SeqSum([k \in DOMAIN regions |->
                   Cardinality(regions[k]) * sides_day12(regions[k])])
    /\ pc' = "done"
    /\ UNCHANGED <<grid, num_rows, num_cols, todo, rc, regions, seen, region,
                   queue, enq, baseline, shuffled>>

----------------------------------------------------------------------------
(* Values of the variables of the scripts a specification does not run. *)

Idle12 ==
    /\ grid = <<>> /\ num_rows = 0 /\ num_cols = 0 /\ todo = <<>>
    /\ rc = <<0, 0>> /\ regions = <<>> /\ seen = {} /\ region = {}
    /\ queue = <<>> /\ enq = <<>> /\ pc = "idle" /\ part1 = 0 /\ part2 = 0
    /\ baseline = <<>> /\ shuffled = FALSE

IdleB == shape = {} /\ perim = 0 /\ nsides = 0 /\ measured = FALSE

Idle9 ==
    /\ data = <<>> /\ disk = <<>> /\ empties = <<>> /\ i = 0 /\ pc9 = "idle"
    /\ part1_9 = 0

Idle6 ==
    /\ grid6 = <<>> /\ ro = 0 /\ co = 0 /\ r6 = 0 /\ c6 = 0 /\ dr6 = 0
    /\ dc6 = 0 /\ visited6 = {} /\ pc6 = "idle" /\ result6 = FALSE
    /\ part2_6 = 0 /\ steps6 = 0

----------------------------------------------------------------------------
(* day12 on rectangular grids, seeds in row-major order. *)

Init == (\E g \in RectGrids \cup {SampleGrid} : Load12(g))
        /\ IdleB /\ Idle9 /\ Idle6

Next ==
    \/ Skip /\ UNCHANGED <<varsB, vars9, vars6>>
    \/ StartRegion /\ UNCHANGED <<varsB, vars9, vars6>>
    \/ Visit /\ UNCHANGED <<varsB, vars9, vars6>>
    \/ CloseRegion /\ UNCHANGED <<varsB, vars9, vars6>>
    \/ Finish /\ UNCHANGED <<varsB, vars9, vars6>>

Spec == Init /\ [][Next]_vars

----------------------------------------------------------------------------
(* day12 on inputs whose rows differ in length. *)

Rows(maxLen) == UNION {[1..n -> Letters] : n \in 0..maxLen}

RaggedGrids ==
    {g \in UNION {[1..nr -> Rows(MaxRaggedCols)] : nr \in 2..MaxRaggedRows} :
        \E a, b \in DOMAIN g : Len(g[a]) # Len(g[b])}

InitRagged == (\E g \in RaggedGrids : Load12(g)) /\ IdleB /\ Idle9 /\ Idle6

SpecRagged == InitRagged /\ [][Next]_vars

----------------------------------------------------------------------------
(* day12 run a second time with the seeds taken in any order: the first    *)
(* pass is the script's, its list of regions is kept in baseline, and the  *)
(* second pass replaces the two nested loops by an arbitrary permutation.  *)

MaxShuffleCells == 6

ShuffleGrids ==
    UNION {[1..d[1] -> [1..d[2] -> Letters]] :
             d \in {e \in (1..MaxShuffleCells) \X (1..MaxShuffleCells) :
                       e[1] * e[2] <= MaxShuffleCells}}

Reshuffle ==
    /\ pc = "done"
    /\ ~shuffled
    /\ baseline' = regions
    /\ shuffled' = TRUE
    /\ todo' = RowMajor(num_rows, num_cols)
    /\ regions' = <<>>
    /\ seen' = {}
    /\ region' = {}
    /\ queue' = <<>>
    /\ enq' = [x \in DOMAIN enq |-> 0]
    /\ pc' = "scan"
    /\ UNCHANGED <<grid, num_rows, num_cols, rc, part1, part2>>

InitShuffle == (\E g \in ShuffleGrids : Load12(g)) /\ IdleB /\ Idle9 /\ Idle6

NextShuffle ==
    \/ ~shuffled /\ Skip /\ UNCHANGED <<varsB, vars9, vars6>>
    \/ ~shuffled /\ StartRegion /\ UNCHANGED <<varsB, vars9, vars6>>
    \/ shuffled /\ (\E k \in DOMAIN todo : SkipAt(k))
                /\ UNCHANGED <<varsB, vars9, vars6>>
    \/ shuffled /\ (\E k \in DOMAIN todo : StartAt(k))
                /\ UNCHANGED <<varsB, vars9, vars6>>
    \/ Visit /\ UNCHANGED <<varsB, vars9, vars6>>
    \/ CloseRegion /\ UNCHANGED <<varsB, vars9, vars6>>
    \/ Finish /\ UNCHANGED <<varsB, vars9, vars6>>
    \/ Reshuffle /\ UNCHANGED <<varsB, vars9, vars6>>

SpecShuffle == InitShuffle /\ [][NextShuffle]_vars

----------------------------------------------------------------------------
(* Claims about day12's region finder. *)

Cells == {x \in (0..(num_rows - 1)) \X (0..(num_cols - 1)) : TRUE}

LoopFinished == (pc = "scan" /\ todo = <<>>) \/ pc = "done"

Adjacent(a, b) ==
    \/ a[1] = b[1] /\ (a[2] = b[2] + 1 \/ b[2] = a[2] + 1)
    \/ a[2] = b[2] /\ (a[1] = b[1] + 1 \/ b[1] = a[1] + 1)

\* the maximal set of same-valued cells joined to the cells of S by
\* 4-adjacency
RECURSIVE Flood(_)
Flood(S) ==
    LET more == {n \in Cells \ S : \E x \in S : Adjacent(n, x) /\ At(n) = At(x)}
    IN  IF more = {} THEN S ELSE Flood(S \cup more)

\* C1: when the region-finding loop has finished on a rectangular grid,
\* every cell of the grid lies in exactly one entry of regions, and every
\* entry is a non-empty maximal set of same-valued 4-connected cells.
C1_Partition ==
    LoopFinished =>
        /\ \A x \in Cells :
              Cardinality({k \in DOMAIN regions : x \in regions[k]}) = 1
        /\ \A k \in DOMAIN regions :
              /\ regions[k] # {}
              /\ regions[k] \subseteq Cells
              /\ \A x \in regions[k] : regions[k] = Flood({x})

\* a 3x3 grid whose border is one region of 8 cells around a hole
C1_Witness ==
    /\ pc = "done"
    /\ num_rows = 3 /\ num_cols = 3
    /\ Len(regions) = 2
    /\ \E k \in DOMAIN regions : Cardinality(regions[k]) = 8

SampleSizes == [A |-> 4, B |-> 4, C |-> 4, D |-> 1, E |-> 3]

\* C2: on the sample grid the run ends with 5 regions, one per letter, of
\* sizes A:4 B:4 C:4 D:1 E:3, and a Part 1 total of 140.
C2_Sample ==
    (grid = SampleGrid /\ pc = "done") =>
        /\ Len(regions) = 5
        /\ \A l \in DOMAIN SampleSizes :
              \E k \in DOMAIN regions :
                  /\ Cardinality(regions[k]) = SampleSizes[l]
                  /\ \A x \in regions[k] : At(x) = l
        /\ part1 = 140

C2_Witness == grid = SampleGrid /\ pc = "done" /\ Len(regions) > 0

\* C4: every region the finder produces has a perimeter of at least 4, and
\* of exactly 4 if and only if it is a single cell.
C4_PerimeterAtLeast4 ==
    \A k \in DOMAIN regions :
        /\ perimeter_day12(regions[k]) >= 4
        /\ perimeter_day12(regions[k]) = 4 <=> Cardinality(regions[k]) = 1

C4_Witness ==
    /\ pc = "done"
    /\ \E k \in DOMAIN regions : Cardinality(regions[k]) = 1
    /\ \E k \in DOMAIN regions : Cardinality(regions[k]) > 4

\* C8: over the whole run no cell, seeds included, is appended to a BFS
\* queue more than once.
C8_NoCellEnqueuedTwice == \A x \in DOMAIN enq : enq[x] <= 1

\* C3: when the rows differ in length the run stops with
\* MalformedInputError before any region work: no cell is dequeued, no
\* region is built and neither total is printed.
C3_MalformedInputRejected ==
    (\E a, b \in DOMAIN grid : Len(grid[a]) # Len(grid[b])) =>
        /\ pc \in {"scan", "MalformedInputError"}
        /\ regions = <<>> /\ region = {} /\ queue = <<>>

\* C6: a pass over the seeds in any order ends with the same set of
\* regions as the row-major pass, none of them listed twice.
C6_OrderIndependent ==
    (shuffled /\ LoopFinished) =>
        /\ Range(regions) = Range(baseline)
        /\ Cardinality(Range(regions)) = Len(regions)
        /\ Len(regions) = Len(baseline)

\* a second pass that started from the last cell of a grid of several
\* regions, one of them of several cells
C6_Witness ==
    /\ shuffled /\ pc = "done"
    /\ Len(regions) > 1
    /\ regions # baseline
    /\ \E k \in DOMAIN regions : Cardinality(regions[k]) > 2

----------------------------------------------------------------------------
(* The boundary analyzer applied to one region: every non-empty            *)
(* 4-connected set of cells inside a BoxRows x BoxCols box.                *)

Box == (0..(BoxRows - 1)) \X (0..(BoxCols - 1))

RECURSIVE Spread(_, _)
Spread(S, reg) ==
    LET more == {n \in reg \ S : \E x \in S : Adjacent(n, x)}
    IN  IF more = {} THEN S ELSE Spread(S \cup more, reg)

Connected(reg) == reg # {} /\ \A x \in reg : Spread({x}, reg) = reg

Shapes == {reg \in SUBSET Box : Connected(reg)}

InitBoundary ==
    /\ shape \in Shapes
    /\ perim = 0 /\ nsides = 0 /\ measured = FALSE
    /\ Idle12 /\ Idle9 /\ Idle6

\* perimeter_day12(r) and sides_day12(r) as computed for part1 and part2
Measure ==
    /\ ~measured
    /\ shape # {}
    /\ perim' = perimeter_day12(shape)
    /\ nsides' = sides_day12(shape)
    /\ measured' = TRUE
    /\ UNCHANGED shape

NextBoundary == Measure /\ UNCHANGED <<vars12, vars9, vars6>>

SpecBoundary == InitBoundary /\ [][NextBoundary]_vars

Rectangle(r0, c0, h, w) == (r0..(r0 + h - 1)) \X (c0..(c0 + w - 1))

\* C5: a solid rectangle of w columns by h rows has perimeter 2(w + h) and
\* 4 sides, also when it is one cell wide or high.
C5_SolidRectangle ==
    measured =>
        \A r0 \in 0..(BoxRows - 1), c0 \in 0..(BoxCols - 1),
           h \in 1..BoxRows, w \in 1..BoxCols :
            shape = Rectangle(r0, c0, h, w) =>
                perim = 2 * (w + h) /\ nsides = 4

C5_Witness == measured /\ shape = Rectangle(0, 0, 2, 3)

\* the cells of reg whose edge towards d is exposed
Exposed(reg, d) == {x \in reg : Shift(x, d) \notin reg}

\* the maximal runs of exposed edges towards d: a run starts at an exposed
\* cell whose predecessor along the line perpendicular to d is not exposed
Runs(reg, d) ==
    LET back == IF d[1] # 0 THEN <<0, -1>> ELSE <<-1, 0>>
    IN  Cardinality({x \in Exposed(reg, d) :
                        Shift(x, back) \notin Exposed(reg, d)})

SideRuns(reg) ==
    Runs(reg, <<-1, 0>>) + Runs(reg, <<1, 0>>)
        + Runs(reg, <<0, -1>>) + Runs(reg, <<0, 1>>)

\* C7: the side count of a non-empty 4-connected region is its number of
\* maximal straight runs of exposed edges, summed over the four directions.
C7_SidesAreRuns == measured => nsides = SideRuns(shape)

\* a ring around a hole, open at one corner, so that two of its cells touch
\* only diagonally
C7_Witness ==
    /\ measured
    /\ shape = (Rectangle(0, 0, 3, 3) \ {<<1, 1>>, <<2, 0>>})
    /\ nsides = 10

----------------------------------------------------------------------------
(* day9: the block layout and the Part 1 compaction loop.  disk and        *)
(* empties hold the code's values; the code's disk[t] is disk[t + 1].      *)

Repeat(v, n) == [j \in 1..n |-> v]

\* line 13-17: data[i] blocks of file i // 2, then data[i + 1] free blocks
RECURSIVE LayOut(_, _)
LayOut(d, k) ==
    IF k > Len(d) THEN <<>>
    ELSE Repeat(IF k % 2 = 1 THEN (k - 1) \div 2 ELSE -1, d[k])
             \o LayOut(d, k + 1)

\* line 19: the positions of the free blocks, ascending
Empties(dsk) ==
    LET free(t) == dsk[t + 1] = -1
    IN  SelectSeq([k \in 1..Len(dsk) |-> k - 1], free)

\* line 22-23: the trailing free blocks are popped
RECURSIVE Strip(_)
Strip(dsk) ==
    IF dsk # <<>> /\ dsk[Len(dsk)] = -1
    THEN Strip(SubSeq(dsk, 1, Len(dsk) - 1))
    ELSE dsk

\* line 30: sum(i * val for i, val in enumerate(disk))
Checksum(dsk) == SeqSum([k \in 1..Len(dsk) |-> (k - 1) * dsk[k]])

\* a subscript of one iteration raises IndexError: disk[-1] of an empty
\* list, empties[i] past the end, or disk[target] after the pop
Raises9 ==
    LET d == Strip(disk) IN
    \/ d = <<>>
    \/ i >= Len(empties)
    \/ /\ i < Len(empties)
       /\ empties[i + 1] < Len(d)
       /\ empties[i + 1] >= Len(d) - 1

DiskMaps ==
    {d \in UNION {[1..n -> 0..MaxDigit] : n \in 1..MaxMapLen} :
        \E k \in DOMAIN d : k % 2 = 1 /\ d[k] > 0}

Init9 ==
    /\ data \in DiskMaps
    /\ disk = LayOut(data, 1)
    /\ empties = Empties(LayOut(data, 1))
    /\ i = 0
    /\ pc9 = "loop"
    /\ part1_9 = 0
    /\ Idle12 /\ IdleB /\ Idle6

\* line 22-25 ending in an uncaught IndexError
CompactRaise ==
    /\ pc9 = "loop"
    /\ Raises9
    /\ disk' = Strip(disk)
    /\ pc9' = "IndexError"
    /\ UNCHANGED <<data, empties, i, part1_9>>

\* line 22-26 and 30: the next free position is past the end, break
CompactBreak ==
    /\ pc9 = "loop"
    /\ ~Raises9
    /\ empties[i + 1] >= Len(Strip(disk))
    /\ disk' = Strip(disk)
    /\ part1_9' = Checksum(Strip(disk))
    /\ pc9' = "done"
    /\ UNCHANGED <<data, empties, i>>

\* line 22-28: the last block moves to the next free position
CompactMove ==
    /\ pc9 = "loop"
    /\ ~Raises9
    /\ empties[i + 1] < Len(Strip(disk))
    /\ LET d == Strip(disk)
           rest == SubSeq(d, 1, Len(d) - 1)
       IN  disk' = [rest EXCEPT ![empties[i + 1] + 1] = d[Len(d)]]
    /\ i' = i + 1
    /\ UNCHANGED <<data, empties, pc9, part1_9>>

Next9 ==
    \/ CompactRaise /\ UNCHANGED <<vars12, varsB, vars6>>
    \/ CompactBreak /\ UNCHANGED <<vars12, varsB, vars6>>
    \/ CompactMove /\ UNCHANGED <<vars12, varsB, vars6>>

SpecDay9 == Init9 /\ [][Next9]_vars

Count(s, v) == Cardinality({k \in DOMAIN s : s[k] = v})

\* C9: on every disk map with a file block the compaction loop never
\* subscripts empties or disk out of range, and it ends through its break
\* with no free entry left in disk and every file's blocks all present.
C9_CompactionEndsClean ==
    /\ pc9 # "IndexError"
    /\ pc9 = "done" =>
          /\ \A k \in DOMAIN disk : disk[k] # -1
          /\ \A f \in 0..Len(data) :
                Count(disk, f) = Count(LayOut(data, 1), f)

----------------------------------------------------------------------------
(* day6: the Part 1 walk, then the Part 2 loop that places one obstacle    *)
(* at a time and calls check_for_loop_day6.  pc6 is "part1" during the     *)
(* Part 1 walk, "place" between two calls, "walk" inside a call and        *)
(* "returned" when the call has returned result6.                          *)

Grids6 ==
    {g \in UNION {[1..d[1] -> [1..d[2] -> {".", "#", "^"}]] :
                    d \in {e \in (1..MaxRows6) \X (1..MaxCols6) :
                              e[1] * e[2] <= MaxCells6}} :
        Cardinality({x \in (DOMAIN g) \X (DOMAIN g[1]) :
                        g[x[1]][x[2]] = "^"}) = 1}

Rows6 == Len(grid6)
Cols6 == Len(grid6[1])

At6(g, row, col) == g[row + 1][col + 1]

\* get_start_day6: the first '^' in row-major order
get_start_day6(g) ==
    LET at == {x \in (0..(Len(g) - 1)) \X (0..(Len(g[1]) - 1)) :
                  At6(g, x[1], x[2]) = "^"}
    IN  CHOOSE x \in at :
            \A y \in at : x[1] < y[1] \/ (x[1] = y[1] /\ x[2] <= y[2])

\* the visited key without the direction, as in the Part 1 walk
KeyNoDirection == <<r6, c6, 0, 0>>

\* the key (r, c, dr, dc) tested against and added to visited
Key6 == <<r6, c6, dr6, dc6>>

\* line 28 / line 51: the cell ahead is outside the grid
Ahead6Outside ==
    ~(/\ 0 <= r6 + dr6 /\ r6 + dr6 < Rows6
      /\ 0 <= c6 + dc6 /\ c6 + dc6 < Cols6)

\* line 30-34 / line 53-57: turn right before a '#', else step forward
Move6 ==
    IF At6(grid6, r6 + dr6, c6 + dc6) = "#"
    THEN /\ dc6' = -dr6
         /\ dr6' = dc6
         /\ UNCHANGED <<r6, c6>>
    ELSE /\ r6' = r6 + dr6
         /\ c6' = c6 + dc6
         /\ UNCHANGED <<dr6, dc6>>

Init6 ==
    /\ grid6 \in Grids6
    /\ r6 = get_start_day6(grid6)[1] /\ c6 = get_start_day6(grid6)[2]
    /\ dr6 = -1 /\ dc6 = 0
    /\ visited6 = {}
    /\ ro = 0 /\ co = 0
    /\ pc6 = "part1"
    /\ result6 = FALSE
    /\ part2_6 = 0
    /\ steps6 = 0
    /\ Idle12 /\ IdleB /\ Idle9

\* line 26-34, one iteration that does not break
Part1Step ==
    /\ pc6 = "part1"
    /\ ~Ahead6Outside
    /\ visited6' = visited6 \cup {<<r6, c6>>}
    /\ Move6
    /\ UNCHANGED <<grid6, ro, co, pc6, result6, part2_6, steps6>>

\* line 26-29 and 36-39: the guard leaves, Part 2 begins
Part1Exit ==
    /\ pc6 = "part1"
    /\ Ahead6Outside
    /\ visited6' = visited6 \cup {<<r6, c6>>}
    /\ pc6' = "place"
    /\ UNCHANGED <<grid6, ro, co, r6, c6, dr6, dc6, result6, part2_6, steps6>>

\* the position of the two nested loops after (ro, co)
AfterCo == IF co + 1 < Cols6 THEN <<ro, co + 1>> ELSE <<ro + 1, 0>>

\* line 63-64: the cell is not '.', continue
PlaceSkip ==
    /\ pc6 = "place"
    /\ ro < Rows6
    /\ At6(grid6, ro, co) # "."
    /\ ro' = AfterCo[1] /\ co' = AfterCo[2]
    /\ UNCHANGED <<grid6, r6, c6, dr6, dc6, visited6, pc6, result6, part2_6,
                   steps6>>

\* line 65-66 and 43-45: the obstacle is placed and the call begins
PlaceObstacle ==
    /\ pc6 = "place"
    /\ ro < Rows6
    /\ At6(grid6, ro, co) = "."
    /\ grid6' = [grid6 EXCEPT ![ro + 1][co + 1] = "#"]
    /\ r6' = get_start_day6(grid6)[1] /\ c6' = get_start_day6(grid6)[2]
    /\ dr6' = -1 /\ dc6' = 0
    /\ visited6' = {}
    /\ steps6' = 0
    /\ pc6' = "walk"
    /\ UNCHANGED <<ro, co, result6, part2_6>>

\* line 48-49: the state was seen before, return True
WalkRepeat ==
    /\ pc6 = "walk"
    /\ Key6 \in visited6
    /\ result6' = TRUE
    /\ pc6' = "returned"
    /\ UNCHANGED <<grid6, ro, co, r6, c6, dr6, dc6, visited6, part2_6, steps6>>

\* line 50-52: the cell ahead is outside the grid, return False
WalkLeave ==
    /\ pc6 = "walk"
    /\ Key6 \notin visited6
    /\ Ahead6Outside
    /\ visited6' = visited6 \cup {Key6}
    /\ steps6' = steps6 + 1
    /\ result6' = FALSE
    /\ pc6' = "returned"
    /\ UNCHANGED <<grid6, ro, co, r6, c6, dr6, dc6, part2_6>>

\* line 50-57: one iteration that does not return
WalkStep ==
    /\ pc6 = "walk"
    /\ Key6 \notin visited6
    /\ ~Ahead6Outside
    /\ visited6' = visited6 \cup {Key6}
    /\ steps6' = steps6 + 1
    /\ Move6
    /\ UNCHANGED <<grid6, ro, co, pc6, result6, part2_6>>

\* line 66-68: the result is counted and the cell restored
Return6 ==
    /\ pc6 = "returned"
    /\ part2_6' = IF result6 THEN part2_6 + 1 ELSE part2_6
    /\ grid6' = [grid6 EXCEPT ![ro + 1][co + 1] = "."]
    /\ ro' = AfterCo[1] /\ co' = AfterCo[2]
    /\ pc6' = "place"
    /\ UNCHANGED <<r6, c6, dr6, dc6, visited6, result6, steps6>>

\* line 70: both loops are over
Part2Done ==
    /\ pc6 = "place"
    /\ ro >= Rows6
    /\ pc6' = "done"
    /\ UNCHANGED <<grid6, ro, co, r6, c6, dr6, dc6, visited6, result6,
                   part2_6, steps6>>

Next6 ==
    \/ Part1Step /\ UNCHANGED <<vars12, varsB, vars9>>
    \/ Part1Exit /\ UNCHANGED <<vars12, varsB, vars9>>
    \/ PlaceSkip /\ UNCHANGED <<vars12, varsB, vars9>>
    \/ PlaceObstacle /\ UNCHANGED <<vars12, varsB, vars9>>
    \/ WalkRepeat /\ UNCHANGED <<vars12, varsB, vars9>>
    \/ WalkLeave /\ UNCHANGED <<vars12, varsB, vars9>>
    \/ WalkStep /\ UNCHANGED <<vars12, varsB, vars9>>
    \/ Return6 /\ UNCHANGED <<vars12, varsB, vars9>>
    \/ Part2Done /\ UNCHANGED <<vars12, varsB, vars9>>

SpecDay6 == Init6 /\ [][Next6]_vars

----------------------------------------------------------------------------
(* Claims about check_for_loop_day6. *)

\* the guard's walk, told apart from the code: a state is <<r, c, dr, dc>>
GuardLeaves(g, s) ==
    ~(/\ 0 <= s[1] + s[3] /\ s[1] + s[3] < Len(g)
      /\ 0 <= s[2] + s[4] /\ s[2] + s[4] < Len(g[1]))

GuardNext(g, s) ==
    IF g[s[1] + s[3] + 1][s[2] + s[4] + 1] = "#"
    THEN <<s[1], s[2], s[4], -s[3]>>
    ELSE <<s[1] + s[3], s[2] + s[4], s[3], s[4]>>

\* whether the walk from s reaches, within n steps, a state whose next step
\* leaves the grid; a walk of 4 * rows * cols steps that has not left has
\* repeated a state and never leaves
RECURSIVE LeavesWithin(_, _, _)
LeavesWithin(g, s, n) ==
    IF GuardLeaves(g, s) THEN TRUE
    ELSE IF n = 0 THEN FALSE
    ELSE LeavesWithin(g, GuardNext(g, s), n - 1)

WalkLeavesGrid(g) ==
    LeavesWithin(g, <<get_start_day6(g)[1], get_start_day6(g)[2], -1, 0>>,
                 4 * Len(g) * Len(g[1]))

\* the call has returned the right answer: False at a state whose next step
\* leaves the grid, True at the first state met a second time
Returned6OK ==
    pc6 = "returned" =>
        /\ result6 = ~WalkLeavesGrid(grid6)
        /\ ~result6 => GuardLeaves(grid6, Key6)
        /\ result6 => Key6 \in visited6
        /\ Cardinality(visited6) = steps6

\* inside a call every iteration so far added a new key to visited, so no
\* call runs for more than 4 * rows * cols iterations, and the loop is never
\* stuck: it returns or goes on
Walk6Bounded ==
    pc6 = "walk" =>
        /\ Cardinality(visited6) = steps6
        /\ steps6 <= 4 * Rows6 * Cols6
        /\ ENABLED (WalkRepeat \/ WalkLeave \/ WalkStep)

\* the script runs one statement after the other, so a step that can be
\* taken is taken; under that fairness every call returns
FairDay6 == SpecDay6 /\ WF_vars(Next6)

Walk6Returns == (pc6 = "walk") ~> (pc6 = "returned")

\* C10: every call of check_for_loop_day6 returns (after at most
\* 4 * rows * cols iterations); it returns False exactly when the guard's
\* walk reaches a state whose next step leaves the grid, True exactly when
\* the walk never leaves, and True is returned at the first repeat of a
\* (row, col, dr, dc) state.
C10_LoopCheck == Returned6OK /\ Walk6Bounded

\* a call that returned True after a walk of more than four states
C10_Witness == pc6 = "returned" /\ result6 /\ steps6 > 4

====
